---- MODULE Spec2Model ----
(***************************************************************************)
(* Model of the session wiring layer of codex-rs:                          *)
(*   tui/src/chatwidget/agent.rs   wire_session, run_session_loops,        *)
(*                                 spawn_op_submit_loop, spawn_agent,      *)
(*                                 spawn_agent_from_existing               *)
(*   core/src/session_io.rs        ChannelEventSink                        *)
(*   core/src/agent_session.rs     AgentSession (submit, next_event)       *)
(***************************************************************************)
EXTENDS Integers, Sequences, FiniteSets, TLC

\* ---------------------------------------------------------------- bounds
MaxOps == 2
MaxEvents == 2
MaxEmits == 3
MaxCalls == 3
MaxInstalls == 2
MaxDraws == 3
MaxScopes == 2
MaxUuids == 3
MaxUuidCalls == 4

\* ------------------------------------------------------------- vocabulary
Ops == {"op1", "op2"}
OpaqueEvents == {"E1", "E2"}
BackendEvents == OpaqueEvents \cup {"ShutdownComplete"}
SinkEvents == {"E1", "E2"}
Capacities == {0, 1, 2}

VARIABLES
    entry,          \* entry point that was called ("none" before the call)
    loopPc,         \* position of the task running run_session_loops
    submitPc,       \* position of the task spawned by spawn_op_submit_loop
    codex_op_rx,    \* Ops queued on the unbounded Op channel
    opTxOpen,       \* the consumer still holds codex_op_tx
    opRxAlive,      \* codex_op_rx has not been dropped
    sentOps,        \* every Op the consumer sent on codex_op_tx, in order
    curOp,          \* the Op of the submit call in flight (<<>> if none)
    submitCalls,    \* Ops passed to session.submit, in call order
    submitResults,  \* results of the resolved submit calls, in order
    app_event_tx,   \* what the consumer received on the app event channel
    backendQueue,   \* every event the backend produced, in production order
    returned,       \* number of events next_event has returned
    backendFailed,  \* the backend's event stream ended abnormally
    recvErr,        \* next_event returned Err to the event-forward task
    nextEventCalls, \* number of next_event calls issued
    startCalls,     \* number of start_thread calls issued
    sessionRefs,    \* tasks holding an Arc of the Session
    tx,             \* ChannelEventSink: events queued in the channel
    capacity,       \* ChannelEventSink: channel capacity, 0 = unbounded
    closed,         \* ChannelEventSink: the channel is closed
    emitPc,         \* ChannelEventSink: position of the producer in emit_event
    emitEvent,      \* ChannelEventSink: the event of the call in flight
    emitCalls,      \* ChannelEventSink: emit_event calls started
    emitReturns,    \* ChannelEventSink: emit_event calls that returned
    dropped,        \* ChannelEventSink: events dropped on a closed channel
    received,       \* ChannelEventSink: events the consumer took off the channel
    sendPhase,      \* lifecycle phase of the session when each Op was sent
    rollout,        \* RolloutFileStorage: the installed recorder (0 = None)
    guard,          \* RolloutFileStorage: holder of the rollout mutex
    callPc,         \* RolloutFileStorage: position of each caller
    callOp,         \* RolloutFileStorage: "save" or "flush", per caller
    recorder,       \* RolloutFileStorage: the snapshot each caller cloned
    installedAtLock,\* RolloutFileStorage: the handle installed when each
                    \* caller held the lock
    ioLog,          \* RolloutFileStorage: completed I/O, in completion order
    callsStarted,   \* RolloutFileStorage: save/flush calls started
    callsReturned,  \* RolloutFileStorage: save/flush calls that returned
    installs,       \* RolloutFileStorage: handle installations so far
    ENTROPY,        \* entropy: the providers bound in each task ("unset" if none)
    uuidPos,        \* entropy: uuids drawn from each providers' RandomSource
    nowPos,         \* entropy: instants read from each providers' Clock
    sysDraws,       \* entropy: values taken from the system default
    draws,          \* entropy: every accessor call with its result, in order
    scopesEntered,  \* entropy: ENTROPY scopes entered so far
    uuid_sequence,  \* MockRandomSource: the Vec of uuids still to hand out
    configured,     \* MockRandomSource: the uuids given to new, in order
    uuidsReturned   \* MockRandomSource: what uuid() returned, in call order

agentVars == <<entry, loopPc, submitPc, codex_op_rx, opTxOpen, opRxAlive,
               sentOps, curOp, submitCalls, submitResults, app_event_tx,
               backendQueue, returned, backendFailed, recvErr,
               nextEventCalls, startCalls, sessionRefs, sendPhase>>
sinkVars == <<tx, capacity, closed, emitPc, emitEvent, emitCalls,
              emitReturns, dropped, received>>
storageVars == <<rollout, guard, callPc, callOp, recorder, installedAtLock,
                 ioLog, callsStarted, callsReturned, installs>>
entropyVars == <<ENTROPY, uuidPos, nowPos, sysDraws, draws, scopesEntered>>
mockVars == <<uuid_sequence, configured, uuidsReturned>>
nonAgentVars == <<sinkVars, storageVars, entropyVars, mockVars>>
nonSinkVars == <<agentVars, storageVars, entropyVars, mockVars>>
nonStorageVars == <<agentVars, sinkVars, entropyVars, mockVars>>
nonEntropyVars == <<agentVars, sinkVars, storageVars, mockVars>>
nonMockVars == <<agentVars, sinkVars, storageVars, entropyVars>>
vars == <<agentVars, sinkVars, storageVars, entropyVars, mockVars>>

\* ----------------------------------------------------------------- helpers
IsPrefix(s, t) == Len(s) <= Len(t) /\ SubSeq(t, 1, Len(s)) = s

Count(s, x) == Cardinality({i \in 1..Len(s) : s[i] = x})

\* The events next_event has returned so far, in order.
ReturnedEvents == SubSeq(backendQueue, 1, returned)

\* The events the backend has produced that next_event has not returned.
PendingEvents == SubSeq(backendQueue, returned + 1, Len(backendQueue))

\* A sequence cut off right after its first ShutdownComplete.
CutAfterShutdown(s) ==
    IF \E i \in 1..Len(s) : s[i] = "ShutdownComplete"
    THEN SubSeq(s, 1, CHOOSE i \in 1..Len(s) :
                         /\ s[i] = "ShutdownComplete"
                         /\ \A j \in 1..(i - 1) : s[j] # "ShutdownComplete")
    ELSE s

\* AppEventSender::send: fire-and-forget delivery on the consumer's
\* unbounded, ordered channel.
send_dedup(chan, ev) ==
    IF chan # <<>> /\ chan[Len(chan)] = ev THEN chan ELSE Append(chan, ev)

send(chan, ev) == Append(chan, ev)

\* Line 63: matches!(event.msg, EventMsg::ShutdownComplete).
is_shutdown_complete_never(event) == FALSE

is_shutdown_complete(event) == event = "ShutdownComplete"

\* ------------------------------------------------------------------- Init
AgentInit ==
    /\ entry = "none"
    /\ loopPc = "idle"
    /\ submitPc = "unspawned"
    /\ codex_op_rx = <<>>
    /\ opTxOpen = FALSE
    /\ opRxAlive = FALSE
    /\ sentOps = <<>>
    /\ curOp = <<>>
    /\ submitCalls = <<>>
    /\ submitResults = <<>>
    /\ app_event_tx = <<>>
    /\ backendQueue = <<>>
    /\ returned = 0
    /\ backendFailed = FALSE
    /\ recvErr = FALSE
    /\ nextEventCalls = 0
    /\ startCalls = 0
    /\ sessionRefs = {}
    /\ sendPhase = <<>>

SinkIdle ==
    /\ tx = <<>>
    /\ capacity = 0
    /\ closed = FALSE
    /\ emitPc = "idle"
    /\ emitEvent = <<>>
    /\ emitCalls = 0
    /\ emitReturns = 0
    /\ dropped = <<>>
    /\ received = <<>>

Callers == {"w1", "w2"}

Handles == {1, 2}

StorageIdle ==
    /\ rollout = 0
    /\ guard = "free"
    /\ callPc = [w \in Callers |-> "idle"]
    /\ callOp = [w \in Callers |-> "save"]
    /\ recorder = [w \in Callers |-> 0]
    /\ installedAtLock = [w \in Callers |-> 0]
    /\ ioLog = <<>>
    /\ callsStarted = 0
    /\ callsReturned = 0
    /\ installs = 0

Tasks == {"A", "B"}

\* No task has entered an ENTROPY scope.
EntropyInit ==
    /\ ENTROPY = [t \in Tasks |-> "unset"]
    /\ uuidPos = [t \in Tasks |-> 0]
    /\ nowPos = [t \in Tasks |-> 0]
    /\ sysDraws = 0
    /\ draws = <<>>
    /\ scopesEntered = 0

\* No MockRandomSource is in use.
MockIdle ==
    /\ uuid_sequence = <<>>
    /\ configured = <<>>
    /\ uuidsReturned = <<>>

Init == AgentInit /\ SinkIdle /\ StorageIdle /\ EntropyInit /\ MockIdle

\* ------------------------------------------------------------ entry points
\* Variant: the submission-forward task is spawned at wiring time, before
\* SessionConfigured is sent.
wire_session_as_submits_early(name) ==
    /\ entry = "none"
    /\ entry' = name
    /\ opTxOpen' = TRUE
    /\ opRxAlive' = TRUE
    /\ loopPc' = "configured"
    /\ submitPc' = "recv"
    /\ sessionRefs' = {"event_forward", "submit_forward"}
    /\ UNCHANGED <<codex_op_rx, sentOps, curOp, submitCalls,
                   submitResults, app_event_tx, backendQueue, returned,
                   backendFailed, recvErr, nextEventCalls, startCalls>>
    /\ UNCHANGED <<sendPhase, nonAgentVars>>

\* wire_session: creates the Op channel and spawns run_session_loops, which
\* owns the session Arc from then on.
wire_session_as(name) ==
    /\ entry = "none"
    /\ entry' = name
    /\ opTxOpen' = TRUE
    /\ opRxAlive' = TRUE
    /\ loopPc' = "configured"
    /\ sessionRefs' = {"event_forward"}
    /\ UNCHANGED <<submitPc, codex_op_rx, sentOps, curOp, submitCalls,
                   submitResults, app_event_tx, backendQueue, returned,
                   backendFailed, recvErr, nextEventCalls, startCalls>>
    /\ UNCHANGED <<sendPhase, nonAgentVars>>

wire_session == wire_session_as("wire_session")

spawn_agent_from_existing == wire_session_as("spawn_agent_from_existing")

\* spawn_agent: creates the Op channel and spawns the bootstrap task, whose
\* first step is the start_thread call it then awaits.
spawn_agent ==
    /\ entry = "none"
    /\ entry' = "spawn_agent"
    /\ opTxOpen' = TRUE
    /\ opRxAlive' = TRUE
    /\ loopPc' = "start_thread"
    /\ startCalls' = startCalls + 1
    /\ UNCHANGED <<submitPc, codex_op_rx, sentOps, curOp, submitCalls,
                   submitResults, app_event_tx, backendQueue, returned,
                   backendFailed, recvErr, nextEventCalls, sessionRefs>>
    /\ UNCHANGED <<sendPhase, nonAgentVars>>

\* The Session exists: it was handed to wire_session, or start_thread
\* returned it.
SessionExists ==
    \/ entry \in {"wire_session", "spawn_agent_from_existing"}
    \/ entry = "spawn_agent" /\ loopPc \notin {"start_thread", "failed"}

Range(s) == {s[i] : i \in 1..Len(s)}

\* run_session_loops has been entered and has sent SessionConfigured.
Running == loopPc \in {"spawn_submit", "next_event", "done"}

ShutdownForwarded == "ShutdownComplete" \in Range(app_event_tx)

\* The lifecycle phase of the session: before SessionConfigured was sent,
\* Running, or after ShutdownComplete was forwarded.
Phase ==
    IF ShutdownForwarded THEN "draining"
    ELSE IF Running THEN "running" ELSE "initializing"

\* ------------------------------------------------------ spawn_agent's task
\* start_thread resolves Ok: the task goes on into run_session_loops with
\* the thread as its session.
StartThreadOk ==
    /\ loopPc = "start_thread"
    /\ loopPc' = "configured"
    /\ sessionRefs' = {"event_forward"}
    /\ UNCHANGED <<entry, submitPc, codex_op_rx, opTxOpen, opRxAlive, sentOps,
                   curOp, submitCalls, submitResults, app_event_tx,
                   backendQueue, returned, backendFailed, recvErr,
                   nextEventCalls, startCalls>>
    /\ UNCHANGED <<sendPhase, nonAgentVars>>

\* Variant: the failure is reported without the fatal-exit signal.
StartThreadErr_no_exit ==
    /\ loopPc = "start_thread"
    /\ app_event_tx' = send(app_event_tx, "Error")
    /\ loopPc' = "failed"
    /\ opRxAlive' = FALSE
    /\ codex_op_rx' = <<>>
    /\ UNCHANGED <<entry, submitPc, opTxOpen, sentOps, curOp, submitCalls,
                   submitResults, backendQueue, returned, backendFailed,
                   recvErr, nextEventCalls, startCalls, sessionRefs>>
    /\ UNCHANGED <<sendPhase, nonAgentVars>>

\* start_thread resolves Err: one Error event, one FatalExitRequest, return.
\* Returning drops the task's future and codex_op_rx with it.
StartThreadErr ==
    /\ loopPc = "start_thread"
    /\ app_event_tx' = send(send(app_event_tx, "Error"), "FatalExitRequest")
    /\ loopPc' = "failed"
    /\ opRxAlive' = FALSE
    /\ codex_op_rx' = <<>>
    /\ UNCHANGED <<entry, submitPc, opTxOpen, sentOps, curOp, submitCalls,
                   submitResults, backendQueue, returned, backendFailed,
                   recvErr, nextEventCalls, startCalls, sessionRefs>>
    /\ UNCHANGED <<sendPhase, nonAgentVars>>

\* ------------------------------------------------------- run_session_loops
\* Variant: the SessionConfigured event is not forwarded.
SendSessionConfigured_skipped ==
    /\ loopPc = "configured"
    /\ loopPc' = "spawn_submit"
    /\ UNCHANGED <<entry, submitPc, codex_op_rx, opTxOpen, opRxAlive, sentOps,
                   curOp, submitCalls, submitResults, app_event_tx,
                   backendQueue, returned, backendFailed, recvErr,
                   nextEventCalls, startCalls, sessionRefs>>
    /\ UNCHANGED <<sendPhase, nonAgentVars>>

\* Lines 53-58: forward the captured SessionConfigured event.
SendSessionConfigured ==
    /\ loopPc = "configured"
    /\ app_event_tx' = send(app_event_tx, "SessionConfigured")
    /\ loopPc' = "spawn_submit"
    /\ UNCHANGED <<entry, submitPc, codex_op_rx, opTxOpen, opRxAlive, sentOps,
                   curOp, submitCalls, submitResults, backendQueue, returned,
                   backendFailed, recvErr, nextEventCalls, startCalls,
                   sessionRefs>>
    /\ UNCHANGED <<sendPhase, nonAgentVars>>

\* Lines 60-62: spawn the submission-forward task with a clone of the Arc,
\* then issue the first next_event call and suspend on it.
spawn_op_submit_loop ==
    /\ loopPc = "spawn_submit"
    /\ submitPc' = "recv"
    /\ sessionRefs' = sessionRefs \cup {"submit_forward"}
    /\ loopPc' = "next_event"
    /\ nextEventCalls' = nextEventCalls + 1
    /\ UNCHANGED <<entry, codex_op_rx, opTxOpen, opRxAlive, sentOps, curOp,
                   submitCalls, submitResults, app_event_tx, backendQueue,
                   returned, backendFailed, recvErr, startCalls>>
    /\ UNCHANGED <<sendPhase, nonAgentVars>>

\* Lines 62-70, next_event resolved Ok(event): forward it; on
\* ShutdownComplete break, which ends the task and drops its Arc; otherwise
\* call next_event again.
NextEventOk ==
    /\ loopPc = "next_event"
    /\ PendingEvents # <<>>
    /\ LET event == Head(PendingEvents)
       IN  /\ returned' = returned + 1
           /\ app_event_tx' = send(app_event_tx, event)
           /\ IF is_shutdown_complete(event)
              THEN /\ loopPc' = "done"
                   /\ sessionRefs' = sessionRefs \ {"event_forward"}
                   /\ UNCHANGED nextEventCalls
              ELSE /\ loopPc' = "next_event"
                   /\ nextEventCalls' = nextEventCalls + 1
                   /\ UNCHANGED sessionRefs
    /\ UNCHANGED <<entry, submitPc, codex_op_rx, opTxOpen, opRxAlive, sentOps,
                   curOp, submitCalls, submitResults, backendQueue,
                   backendFailed, recvErr, startCalls>>
    /\ UNCHANGED <<sendPhase, nonAgentVars>>

\* Variant: a next_event failure is surfaced to the consumer as an Error.
NextEventErr_surfaced ==
    /\ loopPc = "next_event"
    /\ backendFailed
    /\ recvErr' = TRUE
    /\ app_event_tx' = send(app_event_tx, "Error")
    /\ loopPc' = "done"
    /\ sessionRefs' = sessionRefs \ {"event_forward"}
    /\ UNCHANGED <<entry, submitPc, codex_op_rx, opTxOpen, opRxAlive, sentOps,
                   curOp, submitCalls, submitResults, backendQueue, returned,
                   backendFailed, nextEventCalls, startCalls>>
    /\ UNCHANGED <<sendPhase, nonAgentVars>>

\* Line 62, next_event resolved Err: the while-let ends, the task returns.
NextEventErr ==
    /\ loopPc = "next_event"
    /\ backendFailed
    /\ recvErr' = TRUE
    /\ loopPc' = "done"
    /\ sessionRefs' = sessionRefs \ {"event_forward"}
    /\ UNCHANGED <<entry, submitPc, codex_op_rx, opTxOpen, opRxAlive, sentOps,
                   curOp, submitCalls, submitResults, app_event_tx,
                   backendQueue, returned, backendFailed, nextEventCalls,
                   startCalls>>
    /\ UNCHANGED <<sendPhase, nonAgentVars>>

\* ---------------------------------------------------- spawn_op_submit_loop
\* Variant: Ops are taken only after the event loop has ended, as if the
\* two loops ran one after the other in one task.
RecvOp_after_event_loop ==
    /\ submitPc = "recv"
    /\ loopPc = "done"
    /\ codex_op_rx # <<>>
    /\ curOp' = <<Head(codex_op_rx)>>
    /\ codex_op_rx' = Tail(codex_op_rx)
    /\ submitCalls' = Append(submitCalls, Head(codex_op_rx))
    /\ submitPc' = "submit"
    /\ UNCHANGED <<entry, loopPc, opTxOpen, opRxAlive, sentOps, submitResults,
                   app_event_tx, backendQueue, returned, backendFailed,
                   recvErr, nextEventCalls, startCalls, sessionRefs>>
    /\ UNCHANGED <<sendPhase, nonAgentVars>>

\* Variant: the newest queued Op is taken instead of the oldest.
RecvOp_newest_first ==
    /\ submitPc = "recv"
    /\ codex_op_rx # <<>>
    /\ LET n == Len(codex_op_rx)
       IN  /\ curOp' = <<codex_op_rx[n]>>
           /\ codex_op_rx' = SubSeq(codex_op_rx, 1, n - 1)
           /\ submitCalls' = Append(submitCalls, codex_op_rx[n])
    /\ submitPc' = "submit"
    /\ UNCHANGED <<entry, loopPc, opTxOpen, opRxAlive, sentOps, submitResults,
                   app_event_tx, backendQueue, returned, backendFailed,
                   recvErr, nextEventCalls, startCalls, sessionRefs>>
    /\ UNCHANGED <<sendPhase, nonAgentVars>>

\* Line 79-80, recv resolved Some(op): call session.submit(op) and suspend.
RecvOp ==
    /\ submitPc = "recv"
    /\ codex_op_rx # <<>>
    /\ curOp' = <<Head(codex_op_rx)>>
    /\ codex_op_rx' = Tail(codex_op_rx)
    /\ submitCalls' = Append(submitCalls, Head(codex_op_rx))
    /\ submitPc' = "submit"
    /\ UNCHANGED <<entry, loopPc, opTxOpen, opRxAlive, sentOps, submitResults,
                   app_event_tx, backendQueue, returned, backendFailed,
                   recvErr, nextEventCalls, startCalls, sessionRefs>>
    /\ UNCHANGED <<sendPhase, nonAgentVars>>

\* Variant: the task also ends once ShutdownComplete has been forwarded.
RecvNone_after_shutdown ==
    /\ submitPc = "recv"
    /\ codex_op_rx = <<>>
    /\ ~opTxOpen \/ ShutdownForwarded
    /\ submitPc' = "done"
    /\ opRxAlive' = FALSE
    /\ sessionRefs' = sessionRefs \ {"submit_forward"}
    /\ UNCHANGED <<entry, loopPc, codex_op_rx, opTxOpen, sentOps, curOp,
                   submitCalls, submitResults, app_event_tx, backendQueue,
                   returned, backendFailed, recvErr, nextEventCalls,
                   startCalls>>
    /\ UNCHANGED <<sendPhase, nonAgentVars>>

\* Variant: a closed queue ends the task only after ShutdownComplete.
RecvNone_needs_shutdown ==
    /\ submitPc = "recv"
    /\ codex_op_rx = <<>>
    /\ ~opTxOpen
    /\ ShutdownForwarded
    /\ submitPc' = "done"
    /\ opRxAlive' = FALSE
    /\ sessionRefs' = sessionRefs \ {"submit_forward"}
    /\ UNCHANGED <<entry, loopPc, codex_op_rx, opTxOpen, sentOps, curOp,
                   submitCalls, submitResults, app_event_tx, backendQueue,
                   returned, backendFailed, recvErr, nextEventCalls,
                   startCalls>>
    /\ UNCHANGED <<sendPhase, nonAgentVars>>

\* Variant: the task ends without releasing its Arc.
RecvNone_keeps_session ==
    /\ submitPc = "recv"
    /\ codex_op_rx = <<>>
    /\ ~opTxOpen
    /\ submitPc' = "done"
    /\ opRxAlive' = FALSE
    /\ UNCHANGED <<entry, loopPc, codex_op_rx, opTxOpen, sentOps, curOp,
                   submitCalls, submitResults, app_event_tx, backendQueue,
                   returned, backendFailed, recvErr, nextEventCalls,
                   startCalls, sessionRefs>>
    /\ UNCHANGED <<sendPhase, nonAgentVars>>

\* Line 79, recv resolved None (every sender dropped, queue drained): the
\* task ends, dropping codex_op_rx and its Arc.
RecvNone ==
    /\ submitPc = "recv"
    /\ codex_op_rx = <<>>
    /\ ~opTxOpen
    /\ submitPc' = "done"
    /\ opRxAlive' = FALSE
    /\ sessionRefs' = sessionRefs \ {"submit_forward"}
    /\ UNCHANGED <<entry, loopPc, codex_op_rx, opTxOpen, sentOps, curOp,
                   submitCalls, submitResults, app_event_tx, backendQueue,
                   returned, backendFailed, recvErr, nextEventCalls,
                   startCalls>>
    /\ UNCHANGED <<sendPhase, nonAgentVars>>

\* Lines 80-82, submit resolved: Err is logged, either way the loop goes
\* back to recv.
SubmitResolved(result) ==
    /\ submitPc = "submit"
    /\ submitResults' = Append(submitResults, result)
    /\ curOp' = <<>>
    /\ submitPc' = "recv"
    /\ UNCHANGED <<entry, loopPc, codex_op_rx, opTxOpen, opRxAlive, sentOps,
                   submitCalls, app_event_tx, backendQueue, returned,
                   backendFailed, recvErr, nextEventCalls, startCalls,
                   sessionRefs>>
    /\ UNCHANGED <<sendPhase, nonAgentVars>>

SubmitOk == SubmitResolved("Ok")

\* Variant: a failed submit ends the submission-forward task.
SubmitErr_stops ==
    /\ submitPc = "submit"
    /\ submitResults' = Append(submitResults, "Err")
    /\ curOp' = <<>>
    /\ submitPc' = "done"
    /\ opRxAlive' = FALSE
    /\ sessionRefs' = sessionRefs \ {"submit_forward"}
    /\ UNCHANGED <<entry, loopPc, codex_op_rx, opTxOpen, sentOps,
                   submitCalls, app_event_tx, backendQueue, returned,
                   backendFailed, recvErr, nextEventCalls, startCalls>>
    /\ UNCHANGED <<sendPhase, nonAgentVars>>

SubmitErr == SubmitResolved("Err")

\* ------------------------------------------------- consumer and the backend
\* The consumer sends an Op on codex_op_tx. With the receiver gone the send
\* fails and the Op is not queued.
SendOp ==
    /\ opTxOpen
    /\ Len(sentOps) < MaxOps
    /\ \E op \in Ops :
          /\ sentOps' = Append(sentOps, op)
          /\ codex_op_rx' = IF opRxAlive THEN Append(codex_op_rx, op)
                                         ELSE codex_op_rx
    /\ sendPhase' = Append(sendPhase, Phase)
    /\ UNCHANGED <<entry, loopPc, submitPc, opTxOpen, opRxAlive, curOp,
                   submitCalls, submitResults, app_event_tx, backendQueue,
                   returned, backendFailed, recvErr, nextEventCalls,
                   startCalls, sessionRefs>>
    /\ UNCHANGED nonAgentVars

\* The consumer drops codex_op_tx, closing the Op queue.
CloseOpQueue ==
    /\ opTxOpen
    /\ opTxOpen' = FALSE
    /\ UNCHANGED <<entry, loopPc, submitPc, codex_op_rx, opRxAlive, sentOps,
                   curOp, submitCalls, submitResults, app_event_tx,
                   backendQueue, returned, backendFailed, recvErr,
                   nextEventCalls, startCalls, sessionRefs>>
    /\ UNCHANGED <<sendPhase, nonAgentVars>>

\* The backend makes one more event available to next_event.
BackendProduce ==
    /\ SessionExists
    /\ ~backendFailed
    /\ Len(backendQueue) < MaxEvents
    /\ \E e \in BackendEvents : backendQueue' = Append(backendQueue, e)
    /\ UNCHANGED <<entry, loopPc, submitPc, codex_op_rx, opTxOpen, opRxAlive,
                   sentOps, curOp, submitCalls, submitResults, app_event_tx,
                   returned, backendFailed, recvErr, nextEventCalls,
                   startCalls, sessionRefs>>
    /\ UNCHANGED <<sendPhase, nonAgentVars>>

\* The backend's event stream ends abnormally: next_event fails from now on.
BackendFail ==
    /\ SessionExists
    /\ ~backendFailed
    /\ backendFailed' = TRUE
    /\ UNCHANGED <<entry, loopPc, submitPc, codex_op_rx, opTxOpen, opRxAlive,
                   sentOps, curOp, submitCalls, submitResults, app_event_tx,
                   backendQueue, returned, recvErr, nextEventCalls,
                   startCalls, sessionRefs>>
    /\ UNCHANGED <<sendPhase, nonAgentVars>>

Next ==
    \/ wire_session
    \/ spawn_agent_from_existing
    \/ spawn_agent
    \/ StartThreadOk
    \/ StartThreadErr
    \/ SendSessionConfigured
    \/ spawn_op_submit_loop
    \/ NextEventOk
    \/ NextEventErr
    \/ RecvOp
    \/ RecvNone
    \/ SubmitOk
    \/ SubmitErr
    \/ SendOp
    \/ CloseOpQueue
    \/ BackendProduce
    \/ BackendFail

Spec == Init /\ [][Next]_vars

\* The steps of a session created by spawn_agent. Its path through
\* run_session_loops is the one the other two entry points take, preceded by
\* start_thread, so the loops' progress is studied on this entry point alone.
FairNext ==
    \/ spawn_agent
    \/ StartThreadOk
    \/ StartThreadErr
    \/ SendSessionConfigured
    \/ spawn_op_submit_loop
    \/ NextEventOk
    \/ NextEventErr
    \/ RecvOp
    \/ RecvNone
    \/ SubmitOk
    \/ SubmitErr
    \/ SendOp
    \/ CloseOpQueue
    \/ BackendProduce
    \/ BackendFail

\* Fair scheduling of the spawned submission-forward task: the runtime keeps
\* polling it, recv on a closed or non-empty queue returns, and a pending
\* submit call resolves. Nothing is assumed of the event-forward task, of the
\* backend or of the consumer.
FairSpec ==
    /\ Init
    /\ [][FairNext]_vars
    /\ WF_vars(RecvOp \/ RecvNone \/ SubmitOk \/ SubmitErr)

\* ------------------------------------------------------- ChannelEventSink
\* ChannelEventSink::new(tx): the sink wraps whatever async_channel sender
\* it is given, bounded (capacity 1, 2) or unbounded (0).
SinkInit ==
    /\ AgentInit
    /\ StorageIdle
    /\ EntropyInit
    /\ MockIdle
    /\ capacity \in Capacities
    /\ tx = <<>>
    /\ closed = FALSE
    /\ emitPc = "idle"
    /\ emitEvent = <<>>
    /\ emitCalls = 0
    /\ emitReturns = 0
    /\ dropped = <<>>
    /\ received = <<>>

\* Variant: capacity 0 is read as "no room at all".
HasRoom_zero_is_full == Len(tx) < capacity

\* The channel has room for one more message.
HasRoom == capacity = 0 \/ Len(tx) < capacity

\* emit_event is called: the producer enters self.tx.send(event).await.
emit_event ==
    /\ emitPc = "idle"
    /\ emitCalls < MaxEmits
    /\ \E event \in SinkEvents : emitEvent' = <<event>>
    /\ emitPc' = "send"
    /\ emitCalls' = emitCalls + 1
    /\ UNCHANGED <<tx, capacity, closed, emitReturns, dropped, received>>
    /\ UNCHANGED nonSinkVars

\* send resolved Ok: the channel was open with room, the event is queued.
SendOk ==
    /\ emitPc = "send"
    /\ ~closed
    /\ HasRoom
    /\ tx' = Append(tx, emitEvent[1])
    /\ emitPc' = "idle"
    /\ emitEvent' = <<>>
    /\ emitReturns' = emitReturns + 1
    /\ UNCHANGED <<capacity, closed, emitCalls, dropped, received>>
    /\ UNCHANGED nonSinkVars

\* Variant: the event is queued although the channel is closed.
SendClosed_queues ==
    /\ emitPc = "send"
    /\ closed
    /\ tx' = Append(tx, emitEvent[1])
    /\ emitPc' = "idle"
    /\ emitEvent' = <<>>
    /\ emitReturns' = emitReturns + 1
    /\ UNCHANGED <<capacity, closed, emitCalls, dropped, received>>
    /\ UNCHANGED nonSinkVars

\* send resolved Err: the channel is closed; the event is logged at debug
\* level and dropped, emit_event returns.
SendClosed ==
    /\ emitPc = "send"
    /\ closed
    /\ dropped' = Append(dropped, emitEvent[1])
    /\ emitPc' = "idle"
    /\ emitEvent' = <<>>
    /\ emitReturns' = emitReturns + 1
    /\ UNCHANGED <<tx, capacity, closed, emitCalls, received>>
    /\ UNCHANGED nonSinkVars

\* The consumer takes the next event off the channel.
ConsumerRecv ==
    /\ ~closed
    /\ tx # <<>>
    /\ received' = Append(received, Head(tx))
    /\ tx' = Tail(tx)
    /\ UNCHANGED <<capacity, closed, emitPc, emitEvent, emitCalls,
                   emitReturns, dropped>>
    /\ UNCHANGED nonSinkVars

\* The consumer drops its receiver, which closes the channel.
ConsumerClose ==
    /\ ~closed
    /\ closed' = TRUE
    /\ UNCHANGED <<tx, capacity, emitPc, emitEvent, emitCalls, emitReturns,
                   dropped, received>>
    /\ UNCHANGED nonSinkVars

SinkNext ==
    \/ emit_event
    \/ SendOk
    \/ SendClosed
    \/ ConsumerRecv
    \/ ConsumerClose

SinkSpec == SinkInit /\ [][SinkNext]_vars

\* ----------------------------------------------------- RolloutFileStorage
\* RolloutFileStorage::new(rollout): the storage shares the mutex-guarded
\* optional recorder with its owner; a recorder may be installed already.
StorageInit ==
    /\ AgentInit
    /\ SinkIdle
    /\ EntropyInit
    /\ MockIdle
    /\ rollout \in {0, 1}
    /\ guard = "free"
    /\ callPc = [w \in Callers |-> "idle"]
    /\ callOp = [w \in Callers |-> "save"]
    /\ recorder = [w \in Callers |-> 0]
    /\ installedAtLock = [w \in Callers |-> 0]
    /\ ioLog = <<>>
    /\ callsStarted = 0
    /\ callsReturned = 0
    /\ installs = 0

\* save or flush is called: the caller enters self.rollout.lock().await.
CallStart(w, op) ==
    /\ callPc[w] = "idle"
    /\ callsStarted < MaxCalls
    /\ callPc' = [callPc EXCEPT ![w] = "lock"]
    /\ callOp' = [callOp EXCEPT ![w] = op]
    /\ callsStarted' = callsStarted + 1
    /\ UNCHANGED <<rollout, guard, recorder, installedAtLock, ioLog,
                   callsReturned, installs>>
    /\ UNCHANGED nonStorageVars

save == \E w \in Callers : CallStart(w, "save")

flush == \E w \in Callers : CallStart(w, "flush")

\* lock().await resolved: the caller holds the guard.
LockAcquired ==
    \E w \in Callers :
        /\ callPc[w] = "lock"
        /\ guard = "free"
        /\ guard' = w
        /\ callPc' = [callPc EXCEPT ![w] = "locked"]
        /\ UNCHANGED <<rollout, callOp, recorder, installedAtLock, ioLog,
                       callsStarted, callsReturned, installs>>
        /\ UNCHANGED nonStorageVars

\* Variant: the guard is kept while the recorder is used.
Snapshot_keeps_guard(w) ==
    /\ callPc[w] = "locked"
    /\ recorder' = [recorder EXCEPT ![w] = rollout]
    /\ installedAtLock' = [installedAtLock EXCEPT ![w] = rollout]
    /\ IF rollout = 0
       THEN /\ callPc' = [callPc EXCEPT ![w] = "idle"]
            /\ callsReturned' = callsReturned + 1
            /\ guard' = "free"
       ELSE /\ callPc' = [callPc EXCEPT ![w] = "io"]
            /\ UNCHANGED <<callsReturned, guard>>
    /\ UNCHANGED <<rollout, callOp, ioLog, callsStarted, installs>>
    /\ UNCHANGED nonStorageVars

\* let recorder = { guard.clone() }: the handle is cloned and the guard is
\* dropped at the end of the block. With None the call returns; with
\* Some(rec) it goes on into rec.record_items(items).await or
\* rec.flush().await.
Snapshot(w) ==
    /\ callPc[w] = "locked"
    /\ recorder' = [recorder EXCEPT ![w] = rollout]
    /\ installedAtLock' = [installedAtLock EXCEPT ![w] = rollout]
    /\ guard' = "free"
    /\ IF rollout = 0
       THEN /\ callPc' = [callPc EXCEPT ![w] = "idle"]
            /\ callsReturned' = callsReturned + 1
       ELSE /\ callPc' = [callPc EXCEPT ![w] = "io"]
            /\ UNCHANGED callsReturned
    /\ UNCHANGED <<rollout, callOp, ioLog, callsStarted, installs>>
    /\ UNCHANGED nonStorageVars

TakeSnapshot == \E w \in Callers : Snapshot(w)

\* Variant: the I/O goes to whatever handle is installed when it completes.
IoTarget_installed(w) == rollout

\* The recorder the I/O of caller w is issued against: rec, its own clone.
IoTarget(w) == recorder[w]

\* Variant: a failed write uninstalls the recorder.
IoResolved_clears_on_error(w, result) ==
    /\ callPc[w] = "io"
    /\ ioLog' = Append(ioLog, [op |-> callOp[w], handle |-> IoTarget(w),
                               seen |-> installedAtLock[w],
                               atEnd |-> rollout, result |-> result])
    /\ callPc' = [callPc EXCEPT ![w] = "idle"]
    /\ callsReturned' = callsReturned + 1
    /\ rollout' = IF result = "Err" THEN 0 ELSE rollout
    /\ UNCHANGED <<guard, callOp, recorder, installedAtLock,
                   callsStarted, installs>>
    /\ UNCHANGED nonStorageVars

\* record_items / flush resolved: an Err is logged (error! for save, warn!
\* for flush) and the call returns either way.
IoResolved(w, result) ==
    /\ callPc[w] = "io"
    /\ ioLog' = Append(ioLog, [op |-> callOp[w], handle |-> IoTarget(w),
                               seen |-> installedAtLock[w],
                               atEnd |-> rollout, result |-> result])
    /\ callPc' = [callPc EXCEPT ![w] = "idle"]
    /\ callsReturned' = callsReturned + 1
    /\ UNCHANGED <<rollout, guard, callOp, recorder, installedAtLock,
                   callsStarted, installs>>
    /\ UNCHANGED nonStorageVars

IoOk == \E w \in Callers : IoResolved(w, "Ok")

IoErr == \E w \in Callers : IoResolved(w, "Err")

\* The owner of the mutex installs, swaps (h in Handles) or clears (h = 0)
\* the recorder, holding the lock for the assignment only.
InstallHandle ==
    /\ guard = "free"
    /\ installs < MaxInstalls
    /\ \E h \in Handles \cup {0} :
          /\ h # rollout
          /\ rollout' = h
    /\ installs' = installs + 1
    /\ UNCHANGED <<guard, callPc, callOp, recorder, installedAtLock, ioLog,
                   callsStarted, callsReturned>>
    /\ UNCHANGED nonStorageVars

StorageNext ==
    \/ save
    \/ flush
    \/ LockAcquired
    \/ TakeSnapshot
    \/ IoOk
    \/ IoErr
    \/ InstallHandle

StorageSpec == StorageInit /\ [][StorageNext]_vars

\* ---------------------------------------------------------------- entropy
\* Each task that enters a scope binds an EntropyProviders value of its own,
\* named after the task; its RandomSource and Clock hand out their values
\* in sequence.
EntropySpecInit ==
    /\ AgentInit
    /\ SinkIdle
    /\ StorageIdle
    /\ EntropyInit
    /\ MockIdle

\* ENTROPY.scope(providers, future): the binding holds for the task's
\* future and for no other task.
EnterScope ==
    /\ scopesEntered < MaxScopes
    /\ \E t \in Tasks :
          /\ ENTROPY[t] = "unset"
          /\ ENTROPY' = [ENTROPY EXCEPT ![t] = t]
    /\ scopesEntered' = scopesEntered + 1
    /\ UNCHANGED <<uuidPos, nowPos, sysDraws, draws>>
    /\ UNCHANGED nonEntropyVars

\* The scoped future completes: the binding is gone.
ExitScope ==
    /\ \E t \in Tasks :
          /\ ENTROPY[t] # "unset"
          /\ ENTROPY' = [ENTROPY EXCEPT ![t] = "unset"]
    /\ UNCHANGED <<uuidPos, nowPos, sysDraws, draws, scopesEntered>>
    /\ UNCHANGED nonEntropyVars

\* Variant: the binding is looked up process-wide, not per task.
Source_process_wide(t) ==
    IF ENTROPY["B"] # "unset" THEN ENTROPY["B"]
    ELSE IF ENTROPY["A"] # "unset" THEN ENTROPY["A"] ELSE "system"

\* Variant: outside a scope the accessor borrows another task's binding.
Source_borrows(t) ==
    IF ENTROPY[t] # "unset" THEN ENTROPY[t]
    ELSE IF \E u \in Tasks : ENTROPY[u] # "unset"
         THEN ENTROPY[CHOOSE u \in Tasks : ENTROPY[u] # "unset"]
         ELSE "system"

\* ENTROPY.try_with(..).unwrap_or_else(..): the calling task's binding if
\* it has one, else the system default (Uuid::new_v4, Instant::now).
Source(t) == IF ENTROPY[t] # "unset" THEN ENTROPY[t] ELSE "system"

\* entropy_uuid() called in task t.
entropy_uuid ==
    /\ Len(draws) < MaxDraws
    /\ \E t \in Tasks :
          LET src == Source(t)
              idx == IF src = "system" THEN sysDraws + 1 ELSE uuidPos[src] + 1
          IN  /\ draws' = Append(draws, [task |-> t, fn |-> "uuid",
                                         scope |-> ENTROPY[t],
                                         src |-> src, idx |-> idx])
              /\ IF src = "system"
                 THEN sysDraws' = sysDraws + 1 /\ UNCHANGED uuidPos
                 ELSE uuidPos' = [uuidPos EXCEPT ![src] = idx]
                      /\ UNCHANGED sysDraws
    /\ UNCHANGED <<ENTROPY, nowPos, scopesEntered>>
    /\ UNCHANGED nonEntropyVars

\* entropy_now() called in task t.
entropy_now ==
    /\ Len(draws) < MaxDraws
    /\ \E t \in Tasks :
          LET src == Source(t)
              idx == IF src = "system" THEN sysDraws + 1 ELSE nowPos[src] + 1
          IN  /\ draws' = Append(draws, [task |-> t, fn |-> "now",
                                         scope |-> ENTROPY[t],
                                         src |-> src, idx |-> idx])
              /\ IF src = "system"
                 THEN sysDraws' = sysDraws + 1 /\ UNCHANGED nowPos
                 ELSE nowPos' = [nowPos EXCEPT ![src] = idx]
                      /\ UNCHANGED sysDraws
    /\ UNCHANGED <<ENTROPY, uuidPos, scopesEntered>>
    /\ UNCHANGED nonEntropyVars

EntropyNext ==
    \/ EnterScope
    \/ ExitScope
    \/ entropy_uuid
    \/ entropy_now

EntropySpec == EntropySpecInit /\ [][EntropyNext]_vars

\* ------------------------------------------------------- MockRandomSource
UuidValues == {"a", "b", "fallback-uuid"}

\* All sequences over S of length at most n.
SeqsUpTo(S, n) == UNION {[1..k -> S] : k \in 0..n}

Reverse(s) == [i \in 1..Len(s) |-> s[Len(s) + 1 - i]]

\* Variant: the uuids are stored in the order given.
MockNew_not_reversed(uuids) == uuids

\* MockRandomSource::new: uuids.into_iter().map(String::from).rev().collect().
MockNew(uuids) == Reverse(uuids)

MockInit ==
    /\ AgentInit
    /\ SinkIdle
    /\ StorageIdle
    /\ EntropyInit
    /\ configured \in SeqsUpTo(UuidValues, MaxUuids)
    /\ uuid_sequence = MockNew(configured)
    /\ uuidsReturned = <<>>

\* MockRandomSource::uuid: Vec::pop takes the last element; on an empty Vec
\* the result is the literal "fallback-uuid".
uuid ==
    /\ Len(uuidsReturned) < MaxUuidCalls
    /\ LET n == Len(uuid_sequence)
       IN  IF n > 0
           THEN /\ uuidsReturned' = Append(uuidsReturned, uuid_sequence[n])
                /\ uuid_sequence' = SubSeq(uuid_sequence, 1, n - 1)
           ELSE /\ uuidsReturned' = Append(uuidsReturned, "fallback-uuid")
                /\ UNCHANGED uuid_sequence
    /\ UNCHANGED configured
    /\ UNCHANGED nonMockVars

MockNext == uuid

MockSpec == MockInit /\ [][MockNext]_vars

\* ------------------------------------------------------------- properties
ErrorSurfaced == Range(app_event_tx) \cap {"Error", "FatalExitRequest"} # {}

AllAccepted == \A i \in 1..Len(submitResults) : submitResults[i] = "Ok"

SomeRejected == \E i \in 1..Len(submitResults) : submitResults[i] = "Err"

\* C1: in a session started by wire_session, spawn_agent_from_existing or a
\* successful spawn_agent, the first event the consumer receives is the
\* SessionConfigured event of run_session_loops: no event returned by
\* next_event is delivered before it, and next_event is not even called
\* before it has been sent.
SessionConfiguredFirst ==
    /\ \A i \in 1..Len(app_event_tx) :
          app_event_tx[i] \in BackendEvents =>
              i > 1 /\ app_event_tx[1] = "SessionConfigured"
    /\ Running => /\ app_event_tx # <<>>
                  /\ app_event_tx[1] = "SessionConfigured"
    /\ nextEventCalls > 0 => Running
    /\ Count(app_event_tx, "SessionConfigured") <= 1

\* C1 witness: SessionConfigured has been delivered as the only event while
\* the backend already had an event available.
SessionConfiguredFirstWitness ==
    /\ entry = "wire_session"
    /\ loopPc = "spawn_submit"
    /\ app_event_tx = <<"SessionConfigured">>
    /\ PendingEvents # <<>>

\* C2: what the consumer receives after SessionConfigured is exactly the
\* sequence next_event returned, in order, nothing added, dropped or
\* repeated; it is a prefix of the backend's production cut off after the
\* first ShutdownComplete, the whole of it when the task ended on
\* ShutdownComplete, and nothing follows a ShutdownComplete.
EventsForwardedInOrder ==
    Running =>
        /\ Tail(app_event_tx) = ReturnedEvents
        /\ IsPrefix(Tail(app_event_tx), CutAfterShutdown(backendQueue))
        /\ (loopPc = "done" /\ ~recvErr) =>
               Tail(app_event_tx) = CutAfterShutdown(backendQueue)
        /\ \A i \in 1..Len(app_event_tx) :
               app_event_tx[i] = "ShutdownComplete" => i = Len(app_event_tx)

\* C2 witness: the backend produced E1, ShutdownComplete and the consumer
\* holds SessionConfigured, E1, ShutdownComplete.
EventsForwardedInOrderWitness ==
    /\ loopPc = "done"
    /\ backendQueue = <<"E1", "ShutdownComplete">>
    /\ app_event_tx = <<"SessionConfigured", "E1", "ShutdownComplete">>

\* C3 as stated: every session whose event-forward task has ended delivered
\* exactly one ShutdownComplete to the consumer.
ExactlyOneShutdownComplete ==
    loopPc = "done" => Count(app_event_tx, "ShutdownComplete") = 1

\* C3 amended: at most one ShutdownComplete reaches the consumer; exactly one
\* when the event-forward task ended without a next_event failure, none when
\* it ended on a failure; once it is forwarded the task has ended and every
\* next_event call it issued has returned, so no call follows.
AtMostOneShutdownComplete ==
    /\ Count(app_event_tx, "ShutdownComplete") <= 1
    /\ (loopPc = "done" /\ ~recvErr) =>
           Count(app_event_tx, "ShutdownComplete") = 1
    /\ (loopPc = "done" /\ recvErr) =>
           Count(app_event_tx, "ShutdownComplete") = 0
    /\ ShutdownForwarded => /\ loopPc = "done"
                            /\ nextEventCalls = returned

\* C3 witness: ShutdownComplete was forwarded while the backend has a
\* further event ready that no next_event call asks for.
AtMostOneShutdownCompleteWitness ==
    /\ ShutdownForwarded
    /\ PendingEvents # <<>>
    /\ nextEventCalls = returned

\* C4: while every submit is accepted, the Ops passed to submit are the Ops
\* the consumer sent, in the order sent, each once: the calls made so far
\* followed by the Ops still queued are the Ops sent, all of them have been
\* submitted when the task ends, and the consumer got no Error event and no
\* fatal-exit signal.
OpsSubmittedInOrder ==
    (SessionExists /\ AllAccepted) =>
        /\ IsPrefix(submitCalls, sentOps)
        /\ sentOps = submitCalls \o codex_op_rx
        /\ Len(submitResults) + Len(curOp) = Len(submitCalls)
        /\ submitPc = "done" => /\ submitCalls = sentOps
                                /\ Len(submitResults) = Len(sentOps)
        /\ ~ErrorSurfaced

\* C4 witness: two different Ops were sent, both were submitted in that
\* order and accepted, and the task has ended.
OpsSubmittedInOrderWitness ==
    /\ submitPc = "done"
    /\ Len(sentOps) >= 2
    /\ sentOps[1] # sentOps[2]
    /\ submitCalls = sentOps
    /\ Len(submitResults) = Len(sentOps)
    /\ AllAccepted

\* C5: a failed submit does not stop the submission-forward task: with a
\* rejected Op behind it, the task still ends only once the queue is closed
\* and drained, having passed every Op sent to submit in order, and the
\* consumer got no Error event and no fatal-exit signal.
SubmitFailureDoesNotStop ==
    SomeRejected =>
        /\ IsPrefix(submitCalls, sentOps)
        /\ sentOps = submitCalls \o codex_op_rx
        /\ submitPc = "done" => /\ ~opTxOpen
                                /\ codex_op_rx = <<>>
                                /\ submitCalls = sentOps
        /\ ~ErrorSurfaced

\* C5 witness: the first submit failed and a later Op was passed to submit.
SubmitFailureDoesNotStopWitness ==
    /\ Len(submitResults) >= 1
    /\ submitResults[1] = "Err"
    /\ Len(submitCalls) >= 2
    /\ app_event_tx = <<"SessionConfigured">>

\* C6: when start_thread fails, the consumer receives exactly one Error
\* event followed by exactly one fatal-exit signal and nothing else:
\* start_thread was called once, no SessionConfigured was sent, the
\* submission-forward task was never spawned, and neither submit nor
\* next_event was called, whatever Ops the consumer sent.
ConstructionFailureReported ==
    (loopPc = "failed" \/ ErrorSurfaced) =>
        /\ loopPc = "failed"
        /\ app_event_tx = <<"Error", "FatalExitRequest">>
        /\ startCalls = 1
        /\ submitPc = "unspawned"
        /\ submitCalls = <<>>
        /\ nextEventCalls = 0
        /\ sessionRefs = {}

\* C6 witness: construction failed after the consumer had queued two Ops.
ConstructionFailureReportedWitness ==
    /\ loopPc = "failed"
    /\ Len(sentOps) >= 2
    /\ app_event_tx = <<"Error", "FatalExitRequest">>

\* C7 as stated: once ShutdownComplete has been forwarded, no forwarding
\* task holds a reference to the Session.
SessionReleasedAtShutdown ==
    ShutdownForwarded => sessionRefs = {}

\* C7 amended: once ShutdownComplete has been forwarded the event-forward
\* task holds no reference to the Session; the submission-forward task holds
\* its reference exactly while it runs, that is until the Op queue is closed
\* and drained, which may be after ShutdownComplete.
EventForwardReleasedAtShutdown ==
    /\ ShutdownForwarded => "event_forward" \notin sessionRefs
    /\ loopPc = "done" => "event_forward" \notin sessionRefs
    /\ "submit_forward" \in sessionRefs <=> submitPc \in {"recv", "submit"}
    /\ submitPc = "done" => ~opTxOpen /\ codex_op_rx = <<>>

\* C7 witness: ShutdownComplete was forwarded, the Op queue is still open
\* and the submission-forward task alone holds the Session.
EventForwardReleasedAtShutdownWitness ==
    /\ ShutdownForwarded
    /\ opTxOpen
    /\ sessionRefs = {"submit_forward"}

\* C8: when next_event fails before any ShutdownComplete the event-forward
\* task has ended, the consumer holds SessionConfigured followed by exactly
\* the events forwarded before the failure, no Error event and no fatal-exit
\* signal, and the failed call is the last next_event call.
ReceiveErrorEndsSilently ==
    recvErr =>
        /\ loopPc = "done"
        /\ "ShutdownComplete" \notin Range(ReturnedEvents)
        /\ app_event_tx = <<"SessionConfigured">> \o ReturnedEvents
        /\ ~ErrorSurfaced
        /\ nextEventCalls = returned + 1
        /\ "event_forward" \notin sessionRefs

\* C8 witness: next_event failed after two events had been forwarded.
ReceiveErrorEndsSilentlyWitness ==
    /\ recvErr
    /\ returned = 2
    /\ Len(app_event_tx) = 3

ClosedSinkDropsStep ==
    closed =>
        /\ closed'
        /\ tx' = tx
        /\ received' = received
        /\ IsPrefix(dropped, dropped')
        /\ emitReturns' # emitReturns =>
               /\ emitReturns' = emitReturns + 1
               /\ dropped' = Append(dropped, emitEvent[1])
               /\ emitPc' = "idle"

ClosedSinkDropsSilently ==
    /\ [](closed /\ emitPc = "send" => ENABLED SendClosed)
    /\ [](Len(tx) + Len(received) + Len(dropped) = emitReturns)
    /\ [][ClosedSinkDropsStep]_vars

\* C10 witness: two emit_event calls in a row returned after dropping their
\* events on the closed channel.
ClosedSinkDropsSilentlyWitness ==
    /\ closed
    /\ Len(dropped) >= 2
    /\ emitReturns = emitCalls
    /\ emitPc = "idle"

\* Callers whose save/flush call has not returned.
InFlight == {w \in Callers : callPc[w] # "idle"}

\* A step in which caller w's I/O completes with the given result.
IoCompletes(w, result) ==
    /\ callPc[w] = "io"
    /\ callPc'[w] # "io"
    /\ Len(ioLog') = Len(ioLog) + 1
    /\ ioLog'[Len(ioLog')].result = result

\* C11: a failing record_items or flush returns normally to its caller (the
\* call is over, counted as returned), leaves the installed handle, the lock
\* and every snapshot as they were, so that later save and flush calls find
\* the same handle; every call that is not in flight has returned.
FailedWriteStep ==
    \A w \in Callers :
        IoCompletes(w, "Err") =>
            /\ callPc'[w] = "idle"
            /\ callsReturned' = callsReturned + 1
            /\ rollout' = rollout
            /\ guard' = guard
            /\ recorder' = recorder

FailedWriteReturnsNormally ==
    /\ [](callsReturned + Cardinality(InFlight) = callsStarted)
    /\ [][FailedWriteStep]_vars

\* C11 witness: two writes failed and a third I/O, of a call started after
\* one of them had returned, was then issued against the same, still
\* installed handle.
FailedWriteReturnsNormallyWitness ==
    /\ Len(ioLog) = 3
    /\ ioLog[1].result = "Err"
    /\ ioLog[2].result = "Err"
    /\ \A i \in 1..3 : ioLog[i].handle = rollout
    /\ installs = 0

\* C15: every completed record_items / flush went to the handle that was
\* installed when its call held the lock, whatever is installed when it
\* completes; a snapshot is the handle installed at that moment (the last
\* installation) and does not change while the I/O is in flight.
SnapshotStep ==
    \A w \in Callers :
        /\ (callPc[w] = "locked" /\ callPc'[w] # "locked") =>
               recorder'[w] = rollout
        /\ (callPc[w] = "io" /\ callPc'[w] = "io") =>
               recorder'[w] = recorder[w]

WritesGoToCapturedHandle ==
    /\ [](\A i \in 1..Len(ioLog) :
             /\ ioLog[i].handle = ioLog[i].seen
             /\ ioLog[i].handle \in Handles)
    /\ [][SnapshotStep]_vars

\* C15 witness: a write completed against handle 1 although handle 2 had
\* been installed in the meantime, and a later write went to handle 2.
WritesGoToCapturedHandleWitness ==
    /\ Len(ioLog) = 2
    /\ ioLog[1].handle = 1
    /\ ioLog[1].atEnd = 2
    /\ ioLog[2].handle = 2

\* C16: the lock is held only by a caller that is between acquiring it and
\* cloning the handle; a caller whose I/O is in flight does not hold it, so
\* with a write in flight the lock is free unless another caller is just
\* taking its snapshot.
LockNotHeldAcrossIo ==
    /\ \A w \in Callers : callPc[w] = "io" => guard # w
    /\ guard # "free" => guard \in Callers /\ callPc[guard] = "locked"
    /\ (\A w \in Callers : callPc[w] # "locked") => guard = "free"

\* C16 witness: while w1's write against handle 1 is in flight, handle 2 was
\* installed and w2 has taken the lock for a call of its own.
LockNotHeldAcrossIoWitness ==
    /\ callPc["w1"] = "io"
    /\ recorder["w1"] = 1
    /\ rollout = 2
    /\ callPc["w2"] = "locked"
    /\ guard = "w2"

\* The positions in draws of the values of kind fn that came from src.
DrawsFrom(src, fn) ==
    {i \in 1..Len(draws) : draws[i].src = src /\ draws[i].fn = fn}

\* C12: with scopes of A and B active in any interleaving, a call made
\* inside a scope returns a value of that scope's own source, and it is the
\* next one: the k-th uuid (instant) a scope's task receives is the k-th
\* value of its source, which no other task's call has drawn from.
ScopesNeverCrossContaminate ==
    \A i \in 1..Len(draws) :
        draws[i].scope # "unset" =>
            /\ draws[i].scope = draws[i].task
            /\ draws[i].src = draws[i].scope
            /\ draws[i].idx =
                   Cardinality({j \in 1..i :
                                   /\ draws[j].task = draws[i].task
                                   /\ draws[j].fn = draws[i].fn
                                   /\ draws[j].scope # "unset"})

\* C12 witness: A, B and A again called entropy_uuid with both scopes
\* active; A got values 1 and 2 of its source, B value 1 of its own.
ScopesNeverCrossContaminateWitness ==
    /\ Len(draws) = 3
    /\ \A i \in 1..3 : draws[i].fn = "uuid" /\ draws[i].scope # "unset"
    /\ draws[1].task = "A" /\ draws[2].task = "B" /\ draws[3].task = "A"
    /\ draws[3].src = "A" /\ draws[3].idx = 2
    /\ draws[2].src = "B" /\ draws[2].idx = 1

\* C13: a call made outside any scope returns a value of the system default
\* and draws from no scope's source: every source has handed out exactly as
\* many values as calls made inside its own scope received.
UnscopedCallsUseSystemDefault ==
    /\ \A i \in 1..Len(draws) :
          draws[i].scope = "unset" => draws[i].src = "system"
    /\ \A t \in Tasks :
          /\ uuidPos[t] = Cardinality({i \in DrawsFrom(t, "uuid") :
                                          draws[i].scope = t})
          /\ nowPos[t] = Cardinality({i \in DrawsFrom(t, "now") :
                                         draws[i].scope = t})
    /\ sysDraws = Cardinality({i \in 1..Len(draws) : draws[i].scope = "unset"})

\* C13 witness: between two entropy_uuid calls inside B's scope, A called
\* entropy_uuid outside any scope and got a system value; B still got values
\* 1 and 2 of its source.
UnscopedCallsUseSystemDefaultWitness ==
    /\ Len(draws) = 3
    /\ draws[1].task = "B" /\ draws[1].scope = "B" /\ draws[1].idx = 1
    /\ draws[2].task = "A" /\ draws[2].scope = "unset"
    /\ draws[2].src = "system"
    /\ draws[3].task = "B" /\ draws[3].scope = "B" /\ draws[3].idx = 2
    /\ \A i \in 1..3 : draws[i].fn = "uuid"

\* C14 as stated: the configured uuids come back in order, and every call
\* after the sequence is exhausted returns a freshly generated value: one
\* that is none of the configured values and none of the values returned
\* before.
MockFallbackIsFresh ==
    \A i \in 1..Len(uuidsReturned) :
        IF i <= Len(configured)
        THEN uuidsReturned[i] = configured[i]
        ELSE /\ uuidsReturned[i] \notin Range(configured)
             /\ \A j \in 1..(i - 1) : uuidsReturned[j] # uuidsReturned[i]

\* C14 amended: the configured uuids come back in order, one per call, and
\* every call after the sequence is exhausted returns the fixed string
\* "fallback-uuid"; what is left in the Vec is the rest of the sequence.
MockReturnsSequenceThenFallback ==
    /\ \A i \in 1..Len(uuidsReturned) :
          uuidsReturned[i] = IF i <= Len(configured) THEN configured[i]
                             ELSE "fallback-uuid"
    /\ Reverse(uuid_sequence) =
           SubSeq(configured, Len(configured) - Len(uuid_sequence) + 1,
                  Len(configured))
    /\ Len(uuid_sequence) =
           IF Len(uuidsReturned) < Len(configured)
           THEN Len(configured) - Len(uuidsReturned) ELSE 0

\* C14 witness: configured with "a", "b", three calls returned "a", "b" and
\* then "fallback-uuid".
MockReturnsSequenceThenFallbackWitness ==
    /\ configured = <<"a", "b">>
    /\ uuidsReturned = <<"a", "b", "fallback-uuid">>

\* C17: after ShutdownComplete has been forwarded the event-forward task has
\* ended, while the submission-forward task goes on for as long as the Op
\* queue is open: every Op sent, also one sent after the shutdown, is either
\* still queued or was passed to submit once, in order; the task has ended
\* only with the queue closed and everything submitted; and whatever submit
\* answered, ShutdownComplete remains the last thing the consumer received.
SubmitLoopOutlivesShutdown ==
    ShutdownForwarded =>
        /\ loopPc = "done"
        /\ submitPc \in {"recv", "submit", "done"}
        /\ sentOps = submitCalls \o codex_op_rx
        /\ submitPc = "done" => ~opTxOpen /\ submitCalls = sentOps
        /\ opTxOpen => "submit_forward" \in sessionRefs
        /\ app_event_tx[Len(app_event_tx)] = "ShutdownComplete"
        /\ ~ErrorSurfaced

\* C17 witness: the second Op was sent after ShutdownComplete had been
\* forwarded, was passed to submit and rejected; the queue is still open and
\* the consumer has received nothing after ShutdownComplete.
SubmitLoopOutlivesShutdownWitness ==
    /\ Len(sendPhase) = 2
    /\ sendPhase[2] = "draining"
    /\ submitCalls = sentOps
    /\ Len(submitResults) = 2
    /\ submitResults[2] = "Err"
    /\ opTxOpen
    /\ submitPc = "recv"
    /\ app_event_tx[Len(app_event_tx)] = "ShutdownComplete"

Terminated == loopPc = "done" /\ submitPc = "done"

\* C18: once the Op queue is closed, the running submission-forward task
\* eventually ends, having passed every Op sent to submit; the event-forward
\* task has ended only if ShutdownComplete was forwarded or next_event
\* failed, so closing the queue does not end it; the session is Terminated
\* only when both hold, and from then on no submit and no next_event call is
\* made.
QueueCloseEndsSubmitLoop ==
    /\ (~opTxOpen /\ submitPc \in {"recv", "submit"}) ~>
           (submitPc = "done" /\ submitCalls = sentOps)
    /\ [](loopPc = "done" => ShutdownForwarded \/ recvErr)
    /\ [](Terminated => ~opTxOpen /\ (ShutdownForwarded \/ recvErr))
    /\ [][Terminated => /\ submitCalls' = submitCalls
                        /\ nextEventCalls' = nextEventCalls]_vars

\* C18 witness: the queue was closed and the submission-forward task has
\* ended after submitting both Ops, while the event-forward task is still
\* suspended in its first next_event call.
QueueCloseEndsSubmitLoopWitness ==
    /\ ~opTxOpen
    /\ submitPc = "done"
    /\ Len(sentOps) = 2
    /\ submitCalls = sentOps
    /\ loopPc = "next_event"
    /\ nextEventCalls = 1

BufferedOpsSubmittedOnceRunning ==
    /\ submitCalls # <<>> =>
           /\ Running
           /\ app_event_tx[1] = "SessionConfigured"
    /\ submitPc # "unspawned" => Running
    /\ loopPc \in {"start_thread", "configured"} =>
           /\ codex_op_rx = sentOps
           /\ \A i \in 1..Len(sendPhase) : sendPhase[i] = "initializing"
    /\ Running =>
           /\ sentOps = submitCalls \o codex_op_rx
           /\ submitPc = "done" => submitCalls = sentOps
    /\ loopPc = "failed" => submitCalls = <<>> /\ submitPc = "unspawned"

\* C20 witness: two different Ops were sent before start_thread had even
\* returned, and both have been submitted, in the order sent.
BufferedOpsSubmittedOnceRunningWitness ==
    /\ entry = "spawn_agent"
    /\ sendPhase = <<"initializing", "initializing">>
    /\ sentOps[1] # sentOps[2]
    /\ submitCalls = sentOps
    /\ Len(submitResults) = 2

====
